---- MODULE Spec2Model ----
(***************************************************************************)
(* Model of libwyag.py: the GitRepository constructor, the path helpers    *)
(* repo_path / repo_file / repo_dir, repo_default_config and repo_create,  *)
(* over an explicit model of the filesystem subtree rooted at the target   *)
(* path.                                                                   *)
(*                                                                         *)
(* A path is a sequence of components; <<>> is the (always existing)       *)
(* directory that contains the target path.  Every library call            *)
(* (os.path.exists, os.makedirs, open(..., "w"), ConfigParser.read) is one *)
(* atomic step; the statements of repo_create are separate steps, so that  *)
(* the check in repo_dir and the os.makedirs that follows it can be        *)
(* interleaved with the steps of another process.                          *)
(***************************************************************************)
EXTENDS Integers, Sequences, FiniteSets, TLC

\* ------------------------------------------------------------------ bounds
NumProcs == 2          \* processes that may run repo_create concurrently
MaxInitEntries == 2    \* entries already present under .git in an initial state
MaxExternal == 1       \* files a foreign process may drop into the tree (SpecRace)

Procs == 1..NumProcs
\* the process of the sequential specification
SeqProc == CHOOSE p \in Procs : \A q \in Procs : p <= q

\* ------------------------------------------------------------- filesystem
path == <<"r">>                       \* the path argument of create / open
DotGit == <<".git">>
gitdirOf(p) == p \o DotGit            \* os.path.join(path, ".git")
worktree == path
gitdir == gitdirOf(path)

SkeletonDirs == << <<"branches">>, <<"objects">>, <<"refs", "tags">>, <<"refs", "heads">> >>
StepOfDir == <<"branches", "objects", "tags", "heads">>

Entries == { gitdir \o <<"branches">>, gitdir \o <<"objects">>, gitdir \o <<"refs">>,
             gitdir \o <<"refs", "tags">>, gitdir \o <<"refs", "heads">>,
             gitdir \o <<"description">>, gitdir \o <<"HEAD">>, gitdir \o <<"config">> }
Nodes == {worktree, gitdir} \cup Entries

\* what a regular file can hold
Contents == {"empty", "desc", "headref", "cfg0", "cfg1", "cfgabc", "cfgnover"}
Kinds == {"absent", "dir"} \cup Contents

Parent(p) == SubSeq(p, 1, Len(p) - 1)
ProperPrefixes(p) == { SubSeq(p, 1, k) : k \in 1..(Len(p) - 1) }
Prefixes(p) == { SubSeq(p, 1, k) : k \in 1..Len(p) }

Kind(f, p) == IF p = <<>> THEN "dir" ELSE IF p \in DOMAIN f THEN f[p] ELSE "absent"
exists(f, p) == Kind(f, p) # "absent"
isdir(f, p) == Kind(f, p) = "dir"
isfile(f, p) == Kind(f, p) \in Contents
listdir(f, p) == { q \in DOMAIN f : Parent(q) = p /\ f[q] # "absent" }

\* a tree: whatever exists lies in a directory
WellFormed(f) == \A q \in DOMAIN f : f[q] # "absent" => isdir(f, Parent(q))

NoPath == <<"<None>">>                \* Python's None where a path is expected

\* mutant of makedirs: exist_ok=True, an existing directory is not an error
makedirs_ExistOk(f, p) ==
    IF isfile(f, p) THEN [err |-> "FileExistsError", fs |-> f]
    ELSE IF \E a \in ProperPrefixes(p) : isfile(f, a) THEN [err |-> "NotADirectoryError", fs |-> f]
    ELSE [err |-> "none", fs |-> [q \in DOMAIN f |-> IF q \in Prefixes(p) THEN "dir" ELSE f[q]]]

\* os.makedirs(p): exist_ok is False
makedirs(f, p) ==
    IF exists(f, p) THEN [err |-> "FileExistsError", fs |-> f]
    ELSE IF \E a \in ProperPrefixes(p) : isfile(f, a) THEN [err |-> "NotADirectoryError", fs |-> f]
    ELSE [err |-> "none", fs |-> [q \in DOMAIN f |-> IF q \in Prefixes(p) THEN "dir" ELSE f[q]]]

\* with open(p, "w") as f: f.write(c)
write_file(f, p, c) ==
    IF p = NoPath THEN [err |-> "TypeError", fs |-> f]
    ELSE IF isdir(f, p) THEN [err |-> "IsADirectoryError", fs |-> f]
    ELSE IF isfile(f, Parent(p)) THEN [err |-> "NotADirectoryError", fs |-> f]
    ELSE IF ~exists(f, Parent(p)) THEN [err |-> "FileNotFoundError", fs |-> f]
    ELSE [err |-> "none", fs |-> [f EXCEPT ![p] = c]]

\* ---------------------------------------------------------- configuration
EmptyConf == [core |-> FALSE, repositoryformatversion |-> "unset",
              filemode |-> "unset", bare |-> "unset"]

repo_default_config == [core |-> TRUE, repositoryformatversion |-> "0",
                        filemode |-> "false", bare |-> "false"]

\* ConfigParser._read: a line before any section header is an error
ParseOK(c) == c \notin {"desc", "headref"}

ParseConf(c) ==
    CASE c = "cfg0" -> repo_default_config
      [] c = "cfg1" -> [repo_default_config EXCEPT !.repositoryformatversion = "1"]
      [] c = "cfgabc" -> [repo_default_config EXCEPT !.repositoryformatversion = "abc"]
      [] c = "cfgnover" -> [repo_default_config EXCEPT !.repositoryformatversion = "unset"]
      [] OTHER -> EmptyConf

\* ConfigParser.write
ConfigWrite(conf) == CHOOSE c \in Contents : ParseOK(c) /\ ParseConf(c) = conf

\* int(s)
IsInt(s) == s \in {"0", "1"}
IntOf(s) == IF s = "0" THEN 0 ELSE 1

\* ------------------------------------------------------------ path helpers
Handle(p, conf) == [worktree |-> p, gitdir |-> gitdirOf(p), conf |-> conf]
NoHandle == [worktree |-> <<>>, gitdir |-> <<>>, conf |-> EmptyConf]

repo_path(repo, comps) == repo.gitdir \o comps

\* mutant of repo_dir_check: whatever exists is returned, a regular file too
repo_dir_check_NoRaise(f, p) ==
    IF exists(f, p) THEN "return" ELSE "missing"

\* repo_dir, lines 126-130: what the existence test decides
repo_dir_check(f, p) ==
    IF exists(f, p) THEN (IF isdir(f, p) THEN "return" ELSE "raise") ELSE "missing"

\* mutant of repo_dir: with mkdir it calls os.makedirs without looking first
repo_dir_AlwaysMake(f, repo, comps, mkdir) ==
    LET p == repo_path(repo, comps)
        c == repo_dir_check(f, p)
        m == makedirs(f, p)
    IN  IF mkdir THEN [err |-> m.err, out |-> IF m.err = "none" THEN p ELSE NoPath, fs |-> m.fs]
        ELSE IF c = "return" THEN [err |-> "none", out |-> p, fs |-> f]
        ELSE IF c = "raise" THEN [err |-> "NotADirectory", out |-> NoPath, fs |-> f]
        ELSE [err |-> "none", out |-> NoPath, fs |-> f]

\* repo_dir(repo, *path, mkdir): the path, None, or an exception
repo_dir(f, repo, comps, mkdir) ==
    LET p == repo_path(repo, comps)
        c == repo_dir_check(f, p)
        m == makedirs(f, p)
    IN  IF c = "return" THEN [err |-> "none", out |-> p, fs |-> f]
        ELSE IF c = "raise" THEN [err |-> "NotADirectory", out |-> NoPath, fs |-> f]
        ELSE IF mkdir THEN [err |-> m.err, out |-> IF m.err = "none" THEN p ELSE NoPath, fs |-> m.fs]
        ELSE [err |-> "none", out |-> NoPath, fs |-> f]

\* mutant of repo_file: the parent directories are always created
repo_file_MkParents(f, repo, comps, mkdir) ==
    LET d == repo_dir(f, repo, Parent(comps), TRUE)
    IN  IF d.err # "none" THEN d
        ELSE IF d.out # NoPath THEN [err |-> "none", out |-> repo_path(repo, comps), fs |-> d.fs]
        ELSE [err |-> "none", out |-> NoPath, fs |-> d.fs]

\* repo_file(repo, *path, mkdir): repo_dir on all but the last component
repo_file(f, repo, comps, mkdir) ==
    LET d == repo_dir(f, repo, Parent(comps), mkdir)
    IN  IF d.err # "none" THEN d
        ELSE IF d.out # NoPath THEN [err |-> "none", out |-> repo_path(repo, comps), fs |-> d.fs]
        ELSE [err |-> "none", out |-> NoPath, fs |-> d.fs]

\* -------------------------------------------------- GitRepository.__init__
\* mutant of GitRepository: the test vers != 0 is missing
GitRepository_NoVersionCheck(f, p, force) ==
    LET self == Handle(p, EmptyConf)
        cf == repo_file(f, self, <<"config">>, FALSE)
        present == cf.out # NoPath /\ exists(f, cf.out)
        c == Kind(f, cf.out)
        conf == IF present /\ c # "dir" THEN ParseConf(c) ELSE EmptyConf
        vers == conf.repositoryformatversion
        fail(e) == [err |-> e, repo |-> NoHandle]
    IN  IF ~(force \/ isdir(f, self.gitdir)) THEN fail("NotARepository")
        ELSE IF cf.err # "none" THEN fail(cf.err)
        ELSE IF present /\ c # "dir" /\ ~ParseOK(c) THEN fail("ParsingError")
        ELSE IF ~present /\ ~force THEN fail("MissingConfig")
        ELSE IF force THEN [err |-> "none", repo |-> Handle(p, conf)]
        ELSE IF ~conf.core THEN fail("NoSectionError")
        ELSE IF vers = "unset" THEN fail("NoOptionError")
        ELSE IF ~IsInt(vers) THEN fail("ValueError")
        ELSE [err |-> "none", repo |-> Handle(p, conf)]

\* GitRepository(path, force): the handle, or the exception raised
GitRepository(f, p, force) ==
    LET self == Handle(p, EmptyConf)
        cf == repo_file(f, self, <<"config">>, FALSE)
        present == cf.out # NoPath /\ exists(f, cf.out)
        c == Kind(f, cf.out)
        \* ConfigParser.read skips a file it cannot open (a directory)
        conf == IF present /\ c # "dir" THEN ParseConf(c) ELSE EmptyConf
        vers == conf.repositoryformatversion
        fail(e) == [err |-> e, repo |-> NoHandle]
    IN  IF ~(force \/ isdir(f, self.gitdir)) THEN fail("NotARepository")
        ELSE IF cf.err # "none" THEN fail(cf.err)
        ELSE IF present /\ c # "dir" /\ ~ParseOK(c) THEN fail("ParsingError")
        ELSE IF ~present /\ ~force THEN fail("MissingConfig")
        ELSE IF force THEN [err |-> "none", repo |-> Handle(p, conf)]
        ELSE IF ~conf.core THEN fail("NoSectionError")
        ELSE IF vers = "unset" THEN fail("NoOptionError")
        ELSE IF ~IsInt(vers) THEN fail("ValueError")
        ELSE IF IntOf(vers) # 0 THEN fail("UnsupportedFormatVersion")
        ELSE [err |-> "none", repo |-> Handle(p, conf)]

\* ------------------------------------------------------------------- state
VARIABLES
    fs,      \* the filesystem subtree: [Nodes -> Kinds]
    pc,      \* per process: the statement it is about to execute
    idx,     \* per process: which of the four repo_dir asserts of repo_create it is at
    repo,    \* per process: the local variable repo of repo_create
    result,  \* per process: the call in progress or just finished, with its outcome
    prev,    \* the call that finished before result[SeqProc]
    done,    \* per process: the steps of the running repo_create that have completed
    made,    \* per process: the directories that repo_create call has created
    wrote,   \* per process: the files that repo_create call has written
    ext      \* number of files dropped in by a foreign process

vars == <<fs, pc, idx, repo, result, prev, done, made, wrote, ext>>

StepOrder == <<"open", "check", "branches", "objects", "tags", "heads",
               "description", "HEAD", "config">>
StepIndex(s) == CHOOSE i \in 1..Len(StepOrder) : StepOrder[i] = s
StepsBefore(k) == { StepOrder[i] : i \in 1..(k - 1) }

AllAbsent == [q \in Nodes |-> "absent"]

NewCall(op, arg, flag, f) ==
    [op |-> op, arg |-> arg, flag |-> flag, err |-> "none", out |-> NoPath,
     repo |-> NoHandle, pre |-> f, at |-> ""]
NoCall == NewCall("none", <<>>, FALSE, AllAbsent)

\* the entries that may already be present under .git in an initial state
\* (objects behaves as branches, refs/tags as refs/heads, description as HEAD)
InitEntries == { gitdir \o <<"branches">>, gitdir \o <<"refs">>, gitdir \o <<"refs", "heads">>,
                 gitdir \o <<"HEAD">>, gitdir \o <<"config">> }

\* the kinds an entry under .git may have in an initial state
InitKinds(q) == IF q = gitdir \o <<"config">> THEN {"dir"} \cup Contents ELSE {"dir", "empty"}

InitTrees ==
    LET withW(k) == [AllAbsent EXCEPT ![worktree] = k]
        withG(k) == [withW("dir") EXCEPT ![gitdir] = k]
        Subsets == { S \in SUBSET InitEntries : Cardinality(S) <= MaxInitEntries }
        Fill(S, k) == [q \in Nodes |-> IF q \in S THEN k[q] ELSE withG("dir")[q]]
    IN  {AllAbsent, withW("empty"), withW("dir"), withG("empty")} \cup
        { f \in UNION { { Fill(S, k) : k \in [S -> Kinds \ {"absent"}] } : S \in Subsets } :
            /\ WellFormed(f)
            /\ \A q \in Entries : f[q] \in InitKinds(q) \cup {"absent"} }

\* the initial trees of the concurrent specification: nothing under .git yet
RaceTrees ==
    { AllAbsent, [AllAbsent EXCEPT ![worktree] = "dir"],
      [AllAbsent EXCEPT ![worktree] = "dir", ![gitdir] = "dir"] }

Init ==
    /\ fs \in InitTrees
    /\ pc = [p \in Procs |-> "idle"]
    /\ idx = [p \in Procs |-> 1]
    /\ repo = [p \in Procs |-> NoHandle]
    /\ result = [p \in Procs |-> NoCall]
    /\ prev = NoCall
    /\ done = [p \in Procs |-> {}]
    /\ made = [p \in Procs |-> {}]
    /\ wrote = [p \in Procs |-> {}]
    /\ ext = 0

InitRace ==
    /\ fs \in RaceTrees
    /\ pc = [p \in Procs |-> "c_open"]
    /\ idx = [p \in Procs |-> 1]
    /\ repo = [p \in Procs |-> NoHandle]
    /\ result = [p \in Procs |-> NewCall("create", <<>>, FALSE, fs)]
    /\ prev = NoCall
    /\ done = [p \in Procs |-> {}]
    /\ made = [p \in Procs |-> {}]
    /\ wrote = [p \in Procs |-> {}]
    /\ ext = 0

\* ------------------------------------------------------- calls (sequential)
\* a process that is not inside a call starts the next one
Begin(p) ==
    /\ pc[p] \in {"idle", "ret"}
    /\ prev' = IF pc[p] = "ret" THEN result[p] ELSE prev
    /\ done' = [done EXCEPT ![p] = {}]
    /\ made' = [made EXCEPT ![p] = {}]
    /\ wrote' = [wrote EXCEPT ![p] = {}]
    /\ repo' = [repo EXCEPT ![p] = NoHandle]
    /\ UNCHANGED <<idx, ext>>

\* GitRepository(path, force)
OpenCall(p, force) ==
    LET r == GitRepository(fs, path, force)
    IN  /\ Begin(p)
        /\ pc' = [pc EXCEPT ![p] = "ret"]
        /\ result' = [result EXCEPT ![p] =
                        [NewCall("open", <<>>, force, fs) EXCEPT !.err = r.err, !.repo = r.repo]]
        /\ UNCHANGED fs

\* the component sequences the helpers are called with
DirArgs == { <<>>, <<"refs">>, <<"refs", "heads">> }
FileArgs == { <<"config">>, <<"refs", "heads", "master">> }

\* repo_dir(repo, *comps, mkdir=mkdir)
ResolveDirCall(p, comps, mkdir) ==
    LET r == repo_dir(fs, Handle(path, EmptyConf), comps, mkdir)
    IN  /\ Begin(p)
        /\ pc' = [pc EXCEPT ![p] = "ret"]
        /\ result' = [result EXCEPT ![p] =
                        [NewCall("repo_dir", comps, mkdir, fs) EXCEPT !.err = r.err, !.out = r.out]]
        /\ fs' = r.fs

\* repo_file(repo, *comps, mkdir=mkdir)
ResolveFileCall(p, comps, mkdir) ==
    LET r == repo_file(fs, Handle(path, EmptyConf), comps, mkdir)
    IN  /\ Begin(p)
        /\ pc' = [pc EXCEPT ![p] = "ret"]
        /\ result' = [result EXCEPT ![p] =
                        [NewCall("repo_file", comps, mkdir, fs) EXCEPT !.err = r.err, !.out = r.out]]
        /\ fs' = r.fs

\* -------------------------------------------------------------- repo_create
\* repo_create(path) is entered
CreateCall(p) ==
    /\ Begin(p)
    /\ pc' = [pc EXCEPT ![p] = "c_open"]
    /\ result' = [result EXCEPT ![p] = NewCall("create", <<>>, FALSE, fs)]
    /\ UNCHANGED fs

\* an exception leaves repo_create at step s
Fail(p, e, s) ==
    /\ pc' = [pc EXCEPT ![p] = "ret"]
    /\ result' = [result EXCEPT ![p].err = e, ![p].at = s]
    /\ idx' = [idx EXCEPT ![p] = 1]
    /\ repo' = [repo EXCEPT ![p] = NoHandle]
    /\ UNCHANGED <<fs, prev, done, made, wrote, ext>>

\* a statement of repo_create completes, leaving the filesystem f2
Proceed(p, f2, nextpc, i, steps, files) ==
    /\ fs' = f2
    /\ pc' = [pc EXCEPT ![p] = nextpc]
    /\ idx' = [idx EXCEPT ![p] = i]
    /\ done' = [done EXCEPT ![p] = @ \cup steps]
    /\ made' = [made EXCEPT ![p] = @ \cup { q \in Nodes : fs[q] = "absent" /\ f2[q] = "dir" }]
    /\ wrote' = [wrote EXCEPT ![p] = @ \cup files]
    /\ UNCHANGED <<prev, ext>>

\* line 148: repo = GitRepository(path, True)
CreateOpen(p) ==
    LET r == GitRepository(fs, path, TRUE)
    IN  /\ pc[p] = "c_open"
        /\ IF r.err # "none" THEN Fail(p, r.err, "open")
           ELSE /\ Proceed(p, fs, "c_check", 1, {"open"}, {})
                /\ repo' = [repo EXCEPT ![p] = r.repo]
                /\ UNCHANGED result

\* lines 151-156: the tests on the worktree and on the control directory
CreateCheck(p) ==
    LET wt == repo[p].worktree
        gd == repo[p].gitdir
    IN  /\ pc[p] = "c_check"
        /\ IF ~exists(fs, wt) THEN Proceed(p, fs, "c_mkwt", 1, {}, {}) /\ UNCHANGED <<repo, result>>
           ELSE IF ~isdir(fs, wt) THEN Fail(p, "NotADirectory", "check")
           ELSE IF isfile(fs, gd) THEN Fail(p, "NotADirectoryError", "check")
           ELSE IF exists(fs, gd) /\ listdir(fs, gd) # {} THEN Fail(p, "TargetNotEmpty", "check")
           ELSE Proceed(p, fs, "c_dir", 1, {"check"}, {}) /\ UNCHANGED <<repo, result>>

\* line 157: os.makedirs(repo.worktree)
CreateMkWorktree(p) ==
    LET m == makedirs(fs, repo[p].worktree)
    IN  /\ pc[p] = "c_mkwt"
        /\ IF m.err # "none" THEN Fail(p, m.err, "check")
           ELSE Proceed(p, m.fs, "c_dir", 1, {"check"}, {}) /\ UNCHANGED <<repo, result>>

\* the statement after the idx-th assert repo_dir(...)
AfterDir(i) == IF i < Len(SkeletonDirs) THEN "c_dir" ELSE "c_desc"
NextIdx(i) == IF i < Len(SkeletonDirs) THEN i + 1 ELSE 1

\* lines 159-162, repo_dir lines 124-130: the existence test of the idx-th directory
CreateDirCheck(p) ==
    LET i == idx[p]
        c == repo_dir_check(fs, repo_path(repo[p], SkeletonDirs[i]))
    IN  /\ pc[p] = "c_dir"
        /\ IF c = "raise" THEN Fail(p, "NotADirectory", StepOfDir[i])
           ELSE IF c = "missing" THEN Proceed(p, fs, "c_mk", i, {}, {}) /\ UNCHANGED <<repo, result>>
           ELSE Proceed(p, fs, AfterDir(i), NextIdx(i), {StepOfDir[i]}, {}) /\ UNCHANGED <<repo, result>>

\* lines 159-162, repo_dir lines 132-134: os.makedirs of the idx-th directory
CreateDirMake(p) ==
    LET i == idx[p]
        m == makedirs(fs, repo_path(repo[p], SkeletonDirs[i]))
    IN  /\ pc[p] = "c_mk"
        /\ IF m.err # "none" THEN Fail(p, m.err, StepOfDir[i])
           ELSE Proceed(p, m.fs, AfterDir(i), NextIdx(i), {StepOfDir[i]}, {}) /\ UNCHANGED <<repo, result>>

\* with open(repo_file(repo, name), "w") as f: f.write(text)
WriteStep(p, name, text, step, nextpc) ==
    LET rf == repo_file(fs, repo[p], <<name>>, FALSE)
        w == write_file(fs, rf.out, text)
    IN  IF rf.err # "none" THEN Fail(p, rf.err, step)
        ELSE IF w.err # "none" THEN Fail(p, w.err, step)
        ELSE /\ Proceed(p, w.fs, nextpc, 1, {step}, {rf.out})
             /\ IF nextpc = "ret"
                THEN /\ result' = [result EXCEPT ![p].repo = repo[p], ![p].at = "return"]
                     /\ repo' = [repo EXCEPT ![p] = NoHandle]
                ELSE UNCHANGED <<repo, result>>

\* lines 165-166
CreateDescription(p) ==
    /\ pc[p] = "c_desc"
    /\ WriteStep(p, "description", "desc", "description", "c_head")

\* lines 169-170
CreateHead(p) ==
    /\ pc[p] = "c_head"
    /\ WriteStep(p, "HEAD", "headref", "HEAD", "c_conf")

\* lines 172-176: the serialized default configuration, then return repo
CreateConfig(p) ==
    /\ pc[p] = "c_conf"
    /\ WriteStep(p, "HEAD", ConfigWrite(repo_default_config), "config", "ret")

\* where a foreign process may drop a file: the worktree, the control directory
\* and the directories of the skeleton
ExternalTargets == {worktree, gitdir, gitdir \o <<"refs">>} \cup
                   { gitdir \o SkeletonDirs[i] : i \in 1..Len(SkeletonDirs) }

\* a process that is not this program creates a regular file in the shared tree
ExternalWrite ==
    /\ ext < MaxExternal
    /\ \E q \in ExternalTargets :
         /\ ~exists(fs, q)
         /\ isdir(fs, Parent(q))
         /\ fs' = [fs EXCEPT ![q] = "empty"]
    /\ ext' = ext + 1
    /\ UNCHANGED <<pc, idx, repo, result, prev, done, made, wrote>>

\* ----------------------------------------------------------- specifications
Next ==
    \/ CreateCall(SeqProc)
    \/ CreateOpen(SeqProc)
    \/ CreateCheck(SeqProc)
    \/ CreateMkWorktree(SeqProc)
    \/ CreateDirCheck(SeqProc)
    \/ CreateDirMake(SeqProc)
    \/ CreateDescription(SeqProc)
    \/ CreateHead(SeqProc)
    \/ CreateConfig(SeqProc)
    \/ \E force \in BOOLEAN : OpenCall(SeqProc, force)
    \/ \E comps \in DirArgs, mkdir \in BOOLEAN : ResolveDirCall(SeqProc, comps, mkdir)
    \/ \E comps \in FileArgs, mkdir \in BOOLEAN : ResolveFileCall(SeqProc, comps, mkdir)

Spec == Init /\ [][Next]_vars

NextRace ==
    \/ \E p \in Procs : CreateOpen(p)
    \/ \E p \in Procs : CreateCheck(p)
    \/ \E p \in Procs : CreateMkWorktree(p)
    \/ \E p \in Procs : CreateDirCheck(p)
    \/ \E p \in Procs : CreateDirMake(p)
    \/ \E p \in Procs : CreateDescription(p)
    \/ \E p \in Procs : CreateHead(p)
    \/ \E p \in Procs : CreateConfig(p)
    \/ ExternalWrite

SpecRace == InitRace /\ [][NextRace]_vars

TypeOK ==
    /\ fs \in [Nodes -> Kinds]
    /\ WellFormed(fs)
    /\ pc \in [Procs -> {"idle", "c_open", "c_check", "c_mkwt", "c_dir", "c_mk",
                         "c_desc", "c_head", "c_conf", "ret"}]
    /\ idx \in [Procs -> 1..Len(SkeletonDirs)]
    /\ ext \in 0..MaxExternal

\* ------------------------------------------------------------------ claims
\* C1: for every path at which no .git exists beforehand (the path absent, or
\* an existing directory), create(path) completes without error, and an
\* open(path, force=false) performed afterwards completes without error and
\* returns a handle.
C1_CreateThenOpen ==
    LET r == result[SeqProc]
        NoGitBefore(f) == /\ ~exists(f, gitdir)
                          /\ (~exists(f, worktree) \/ isdir(f, worktree))
    IN  /\ (pc[SeqProc] = "ret" /\ r.op = "create" /\ NoGitBefore(r.pre)) => r.err = "none"
        /\ (/\ pc[SeqProc] = "ret" /\ r.op = "open" /\ ~r.flag
            /\ prev.op = "create" /\ prev.err = "none" /\ NoGitBefore(prev.pre))
           => (r.err = "none" /\ r.repo # NoHandle)

\* C2: after a successful create on an empty target, .git holds exactly
\* branches/, objects/, refs/tags/, refs/heads/, description, HEAD and config;
\* HEAD holds "ref: refs/heads/master\n" and config the default [core] section.
C2_SkeletonLayout ==
    LET r == result[SeqProc]
    IN  (pc[SeqProc] = "ret" /\ r.op = "create" /\ r.err = "none" /\ listdir(r.pre, gitdir) = {})
        => /\ { q \in Nodes : exists(fs, q) } = Nodes
           /\ \A i \in 1..Len(SkeletonDirs) : isdir(fs, gitdir \o SkeletonDirs[i])
           /\ fs[gitdir \o <<"description">>] = "desc"
           /\ fs[gitdir \o <<"HEAD">>] = "headref"
           /\ fs[gitdir \o <<"config">>] = "cfg0"

\* C3: when .git is a non-empty directory, create fails with TargetNotEmpty and
\* the filesystem after the failed call equals the filesystem before it; in
\* particular a second create after a successful one fails with TargetNotEmpty.
C3_TargetNotEmpty ==
    LET r == result[SeqProc]
    IN  (r.op = "create" /\ isdir(r.pre, gitdir) /\ listdir(r.pre, gitdir) # {})
        => /\ fs = r.pre
           /\ pc[SeqProc] = "ret" => r.err = "TargetNotEmpty"

C5_ForceNeverFails ==
    LET r == result[SeqProc]
    IN  (pc[SeqProc] = "ret" /\ r.op = "open" /\ r.flag) => (r.err = "none" /\ r.repo # NoHandle)

\* C6: the handle a successful create returns is the one obtained by re-opening
\* the repository without force after the config file was written: its config
\* holds core.repositoryformatversion = 0 and core.bare = "false".
C6_ReturnsReopened ==
    LET r == result[SeqProc]
    IN  (pc[SeqProc] = "ret" /\ r.op = "create" /\ r.err = "none")
        => /\ r.repo.conf.core
           /\ r.repo.conf.repositoryformatversion = "0"
           /\ r.repo.conf.bare = "false"

\* C7 (as stated): resolve_dir with create=true called twice in a row on a path
\* that is absent or already a directory returns the same path both times
\* without error, and the second call leaves the filesystem unchanged.
C7_Idempotent ==
    LET r == result[SeqProc]
        target == gitdir \o r.arg
    IN  (/\ pc[SeqProc] = "ret" /\ r.op = "repo_dir" /\ r.flag
         /\ prev.op = "repo_dir" /\ prev.flag /\ prev.arg = r.arg
         /\ Kind(prev.pre, target) \in {"absent", "dir"})
        => /\ prev.err = "none" /\ r.err = "none"
           /\ prev.out = target /\ r.out = target
           /\ fs = r.pre

\* C7 (amended): resolve_dir with create=true called twice in a row on a path
\* that is already a directory, or is absent with no regular file among its
\* ancestors, returns the same path both times without error, and the second
\* call leaves the filesystem exactly as the first call left it.
C7_IdempotentUnderDirs ==
    LET r == result[SeqProc]
        target == gitdir \o r.arg
    IN  (/\ pc[SeqProc] = "ret" /\ r.op = "repo_dir" /\ r.flag
         /\ prev.op = "repo_dir" /\ prev.flag /\ prev.arg = r.arg
         /\ Kind(prev.pre, target) \in {"absent", "dir"}
         /\ \A a \in ProperPrefixes(target) : ~isfile(prev.pre, a))
        => /\ prev.err = "none" /\ r.err = "none"
           /\ prev.out = target /\ r.out = target
           /\ fs = r.pre

\* C7 witness: refs/heads was absent, the first call created it, the second
\* call returned it
C7_Witness ==
    /\ pc[SeqProc] = "ret"
    /\ result[SeqProc].op = "repo_dir" /\ result[SeqProc].flag
    /\ prev.op = "repo_dir" /\ prev.flag
    /\ prev.arg = <<"refs", "heads">> /\ result[SeqProc].arg = <<"refs", "heads">>
    /\ ~exists(prev.pre, gitdir \o <<"refs", "heads">>)
    /\ isdir(result[SeqProc].pre, gitdir \o <<"refs", "heads">>)
    /\ result[SeqProc].out = gitdir \o <<"refs", "heads">>

\* C8 (as stated): resolve_file with create_parents=false never fails and never
\* changes the filesystem; it returns the absent result whenever the parent
\* path is not a directory (absent, or a regular file) and the joined path
\* only when the parent path is a directory.
C8_NoCreateNeverFails ==
    LET r == result[SeqProc]
        parent == gitdir \o Parent(r.arg)
    IN  (pc[SeqProc] = "ret" /\ r.op = "repo_file" /\ ~r.flag)
        => /\ r.err = "none"
           /\ fs = r.pre
           /\ r.out = IF isdir(r.pre, parent) THEN gitdir \o r.arg ELSE NoPath

\* C8 (amended): resolve_file with create_parents=false never changes the
\* filesystem; it returns the absent result when the parent path is absent,
\* fails with NotADirectory when the parent path exists as a regular file, and
\* returns the joined path only when the parent path is a directory.
C8_NoCreateReadOnly ==
    LET r == result[SeqProc]
        parent == gitdir \o Parent(r.arg)
    IN  (pc[SeqProc] = "ret" /\ r.op = "repo_file" /\ ~r.flag)
        => /\ fs = r.pre
           /\ ~exists(r.pre, parent) => (r.err = "none" /\ r.out = NoPath)
           /\ isfile(r.pre, parent) => (r.err = "NotADirectory" /\ r.out = NoPath)
           /\ isdir(r.pre, parent) => (r.err = "none" /\ r.out = gitdir \o r.arg)
           /\ r.out # NoPath => (r.out = gitdir \o r.arg /\ isdir(r.pre, parent))

\* C8 witness: the parent refs/heads is absent and the absent result comes back
C8_Witness ==
    /\ pc[SeqProc] = "ret"
    /\ result[SeqProc].op = "repo_file" /\ ~result[SeqProc].flag
    /\ result[SeqProc].arg = <<"refs", "heads", "master">>
    /\ ~exists(result[SeqProc].pre, gitdir \o <<"refs", "heads">>)
    /\ result[SeqProc].err = "none"
    /\ result[SeqProc].out = NoPath

\* C9: create runs its steps strictly in order and stops at the first failing
\* one: the completed steps are always an initial segment of the step order; a
\* failed create has completed exactly the steps before the failing one, has
\* written no file when it failed before the description step, and has created
\* only directories of steps it completed; every directory it created is still
\* there (no rollback); and a create that returned normally found the worktree
\* and each of branches, objects, refs, refs/tags, refs/heads to be a
\* directory, so a regular file at any of them makes create fail.
C9_StopAtFirstFailure ==
    LET DirsOfStep(s) ==
            CASE s = "check" -> {worktree}
              [] s = "branches" -> Prefixes(gitdir \o <<"branches">>)
              [] s = "objects" -> Prefixes(gitdir \o <<"objects">>)
              [] s = "tags" -> Prefixes(gitdir \o <<"refs", "tags">>)
              [] s = "heads" -> Prefixes(gitdir \o <<"refs", "heads">>)
              [] OTHER -> {}
    IN  \A p \in Procs :
          /\ \E k \in 1..(Len(StepOrder) + 1) : done[p] = StepsBefore(k)
          /\ \A d \in made[p] : isdir(fs, d)
          /\ (pc[p] = "ret" /\ result[p].err # "none")
             => /\ done[p] = StepsBefore(StepIndex(result[p].at))
                /\ StepIndex(result[p].at) <= StepIndex("description") => wrote[p] = {}
                /\ made[p] \subseteq UNION { DirsOfStep(s) : s \in done[p] \cup {result[p].at} }
          /\ (pc[p] = "ret" /\ result[p].err = "none")
             => /\ done[p] = StepsBefore(Len(StepOrder) + 1)
                /\ isdir(fs, worktree)
                /\ isdir(fs, gitdir \o <<"refs">>)
                /\ \A i \in 1..Len(SkeletonDirs) : isdir(fs, gitdir \o SkeletonDirs[i])

\* C9 witness: a create that had already made .git/branches found a regular
\* file at .git/objects and stopped there
C9_Witness ==
    \E p \in Procs :
        /\ pc[p] = "ret"
        /\ result[p].err = "NotADirectory"
        /\ result[p].at = "objects"
        /\ isfile(fs, gitdir \o <<"objects">>)
        /\ gitdir \o <<"branches">> \in made[p]
        /\ wrote[p] = {}

\* C10: the existence checks and the creations that follow them are separate
\* steps with no locking: passing the emptiness check or seeing a directory
\* absent changes nothing on disk, the emptiness check passes whenever the
\* control directory is absent or empty whatever the other processes are doing,
\* and a process that saw a directory absent fails in os.makedirs when the
\* directory has appeared in the meantime.
C10_CheckThenAct ==
    [][\A p \in Procs :
         LET target == repo_path(repo[p], SkeletonDirs[idx[p]])
         IN  /\ (pc[p] = "c_check" /\ pc'[p] \in {"c_dir", "c_mkwt"}) => fs' = fs
             /\ (/\ pc[p] = "c_check" /\ pc'[p] # "c_check"
                 /\ ~exists(fs, worktree) \/ isdir(fs, worktree)
                 /\ ~exists(fs, gitdir) \/ (isdir(fs, gitdir) /\ listdir(fs, gitdir) = {}))
                => pc'[p] \in {"c_dir", "c_mkwt"}
             /\ (pc[p] = "c_dir" /\ pc'[p] = "c_mk") => (fs' = fs /\ ~exists(fs, target))
             /\ (pc[p] = "c_mk" /\ pc'[p] # "c_mk" /\ exists(fs, target))
                => (pc'[p] = "ret" /\ result'[p].err = "FileExistsError" /\ fs' = fs)
      ]_vars

\* C10 witness: two processes both passed the emptiness check, and one of them
\* failed in os.makedirs on a skeleton directory the other had created
C10_Witness ==
    \E p, q \in Procs :
        /\ p # q
        /\ "check" \in done[p] /\ "check" \in done[q]
        /\ pc[p] = "ret"
        /\ result[p].err = "FileExistsError"
        /\ result[p].at = "branches"
        /\ gitdir \o <<"branches">> \in made[q]

====
